---- MODULE Spec2Model ----
(***************************************************************************)
(* A model of the PDF field-extraction service: the DocumentExtractor      *)
(* pipeline of document_extractor.py and the /extract request handler of   *)
(* app.py.  Text is a sequence of one-character strings, so that the       *)
(* regular expressions, case folding, stripping and splitting of the       *)
(* source are computed character by character.                             *)
(***************************************************************************)
EXTENDS Integers, Sequences, FiniteSets, TLC

\* ------------------------------------------------------------------------
\* Characters and the str methods the source uses
\* ------------------------------------------------------------------------

UpperSeq == <<"A", "B", "C", "D", "E", "F", "G", "H", "I", "J", "K", "L", "M", "N", "O", "P", "Q", "R", "S", "T", "U", "V", "W", "X", "Y", "Z">>

LowerSeq == <<"a", "b", "c", "d", "e", "f", "g", "h", "i", "j", "k", "l", "m", "n", "o", "p", "q", "r", "s", "t", "u", "v", "w", "x", "y", "z">>

UpperL == {UpperSeq[i] : i \in 1..Len(UpperSeq)}

LowerL == {LowerSeq[i] : i \in 1..Len(LowerSeq)}

Letter == UpperL \union LowerL

Digit == {"0", "1", "2", "3", "4", "5", "6", "7", "8", "9"}

\* \s of the re module and the characters str.strip() removes (ASCII part)
Whitespace == {" ", "\t", "\n", "\r", "\f"}

\* \w of the re module (ASCII part)
WordChar == Letter \union Digit \union {"_"}

LetterIndex(c, alphabet) == CHOOSE i \in 1..Len(alphabet) : alphabet[i] = c

upper_char(c) == IF c \in LowerL THEN UpperSeq[LetterIndex(c, LowerSeq)] ELSE c

lower_char(c) == IF c \in UpperL THEN LowerSeq[LetterIndex(c, UpperSeq)] ELSE c

swapcase_char(c) == IF c \in LowerL THEN upper_char(c) ELSE lower_char(c)

\* both cases of every character of a class
CaseClosure(set) == set \union {swapcase_char(c) : c \in set}

\* str.upper()
str_upper(t) == [i \in 1..Len(t) |-> upper_char(t[i])]

\* str.lower()
str_lower(t) == [i \in 1..Len(t) |-> lower_char(t[i])]

\* str.strip(): leading and trailing whitespace removed
str_strip(t) ==
    LET keep == {i \in 1..Len(t) : t[i] \notin Whitespace}
    IN  IF keep = {} THEN <<>>
        ELSE LET first == CHOOSE i \in keep : \A j \in keep : i <= j
                 last  == CHOOSE i \in keep : \A j \in keep : j <= i
             IN  SubSeq(t, first, last)

\* str.split(sep) for a one-character separator: always at least one piece
RECURSIVE str_split(_, _)
str_split(t, sep) ==
    LET hits == {i \in 1..Len(t) : t[i] = sep}
    IN  IF hits = {} THEN <<t>>
        ELSE LET i == CHOOSE h \in hits : \A j \in hits : h <= j
             IN  <<SubSeq(t, 1, i - 1)>> \o str_split(SubSeq(t, i + 1, Len(t)), sep)

\* str.replace(old, '') for a one-character old
str_remove_char(t, old) == SelectSeq(t, LAMBDA c : c # old)

\* the least element of a non-empty set of integers
Least(S) == CHOOSE i \in S : \A j \in S : i <= j

\* Body of a value that is computed once, however often Body uses it
With(value, Body(_)) == CHOOSE y \in {Body(x) : x \in {value}} : TRUE

\* word in text
str_contains(t, word) ==
    \E i \in 1..(Len(t) - Len(word) + 1) : SubSeq(t, i, i + Len(word) - 1) = word

\* any(word in text for word in words)
any_contains(t, words) == \E k \in 1..Len(words) : str_contains(t, words[k])

\* ------------------------------------------------------------------------
\* The re module: a backtracking matcher for the constructs the source's
\* patterns use.  A pattern is a sequence of elements (a character class
\* with a greedy {min,max} quantifier, or an anchor) and one capture group
\* spanning elements gs..ge.  Alternatives are tried in the order written.
\* ------------------------------------------------------------------------

Cls(set, lo, hi) ==
    [anchor |-> "", neg |-> FALSE, set |-> set, min |-> lo, max |-> hi, unb |-> FALSE]

\* class with an unbounded quantifier: X*, X+, X{n,}
ClsMany(set, lo) ==
    [anchor |-> "", neg |-> FALSE, set |-> set, min |-> lo, max |-> lo, unb |-> TRUE]

\* negated class [^...] with an unbounded quantifier
NotClsMany(set, lo) ==
    [anchor |-> "", neg |-> TRUE, set |-> set, min |-> lo, max |-> lo, unb |-> TRUE]

\* "bos" is ^, "eos" is $, "wordb" is \b
Anchor(a) ==
    [anchor |-> a, neg |-> FALSE, set |-> {}, min |-> 0, max |-> 0, unb |-> FALSE]

\* a literal string, one element per character
Lit(word) == [i \in 1..Len(word) |-> Cls({word[i]}, 1, 1)]

\* a pattern whose capture group is the elements of group
Pat(before, group, after) ==
    [els |-> before \o group \o after,
     gs  |-> Len(before) + 1,
     ge  |-> Len(before) + Len(group)]

\* re.IGNORECASE: a class holds a character when it holds either case of it
IgnoreCase(p) ==
    [p EXCEPT !.els = [i \in 1..Len(p.els) |->
                          [p.els[i] EXCEPT !.set = CaseClosure(p.els[i].set)]]]

\* re.IGNORECASE for each pattern of a list
IgnoreCaseAll(ps) == [k \in 1..Len(ps) |-> IgnoreCase(ps[k])]

\* whether character c is matched by element e
char_matches(c, e) == IF e.neg THEN c \notin e.set ELSE c \in e.set

\* the number of consecutive characters from pos that element e can take
RECURSIVE run_length(_, _, _, _)
run_length(e, pos, t, taken) ==
    IF (~e.unb /\ taken >= e.max) \/ pos > Len(t) \/ ~char_matches(t[pos], e)
    THEN taken
    ELSE run_length(e, pos + 1, t, taken + 1)

anchor_holds(a, pos, t) ==
    CASE a = "bos"   -> pos = 1
      [] a = "eos"   -> pos = Len(t) + 1 \/ (pos = Len(t) /\ t[pos] = "\n")
      [] a = "wordb" -> LET before == pos > 1 /\ t[pos - 1] \in WordChar
                            after  == pos <= Len(t) /\ t[pos] \in WordChar
                        IN  before # after
      [] OTHER       -> FALSE

\* The match of elements i.. of els at pos: <<>> when there is none, else the
\* positions at which each of these elements starts, then the end position.
\* A quantified class first takes all it can and gives back one character
\* at a time while the rest of the pattern fails.
RECURSIVE match_from(_, _, _, _)
RECURSIVE match_giving_back(_, _, _, _, _)
match_from(els, i, pos, t) ==
    IF i > Len(els) THEN <<pos>>
    ELSE IF els[i].anchor # ""
         THEN IF anchor_holds(els[i].anchor, pos, t)
              THEN With(match_from(els, i + 1, pos, t),
                        LAMBDA rest : IF rest = <<>> THEN <<>> ELSE <<pos>> \o rest)
              ELSE <<>>
         ELSE match_giving_back(els, i, pos, t, run_length(els[i], pos, t, 0))

match_giving_back(els, i, pos, t, k) ==
    IF k < els[i].min THEN <<>>
    ELSE With(match_from(els, i + 1, pos + k, t),
              LAMBDA rest : IF rest # <<>> THEN <<pos>> \o rest
                            ELSE match_giving_back(els, i, pos, t, k - 1))

NoMatch == [found |-> FALSE, start |-> 0, end |-> 0, group |-> <<>>]

\* the match object of pattern p at exactly position pos
match_at(p, pos, t) ==
    With(match_from(p.els, 1, pos, t),
         LAMBDA b : IF b = <<>> THEN NoMatch
                    ELSE [found |-> TRUE, start |-> pos, end |-> b[Len(b)],
                          group |-> SubSeq(t, b[p.gs], b[p.ge + 1] - 1)])

\* the positions from pos on at which pattern p matches
match_starts(p, pos, t) ==
    UNION {IF match_from(p.els, 1, s, t) # <<>> THEN {s} ELSE {} : s \in pos..(Len(t) + 1)}

\* re.search(p, t) from position pos on: the leftmost match
search_from(p, pos, t) ==
    With(match_starts(p, pos, t),
         LAMBDA starts : IF starts = {} THEN NoMatch ELSE match_at(p, Least(starts), t))

re_search(p, t) == search_from(p, 1, t)

\* re.findall(p, t): the groups of the non-overlapping matches, left to right
RECURSIVE findall_from(_, _, _)
findall_from(p, pos, t) ==
    With(search_from(p, pos, t),
         LAMBDA m : IF ~m.found THEN <<>>
                    ELSE <<m.group>> \o
                         findall_from(p, IF m.end > m.start THEN m.end ELSE m.end + 1, t))

re_findall(p, t) == findall_from(p, 1, t)

\* the alternatives (a|b|c) of a pattern at one position, tried in order
RECURSIVE first_alternative(_, _, _, _)
first_alternative(ps, k, pos, t) ==
    IF k > Len(ps) THEN NoMatch
    ELSE With(match_at(ps[k], pos, t),
              LAMBDA m : IF m.found THEN m ELSE first_alternative(ps, k + 1, pos, t))

\* the positions at which one of the alternatives matches
alternative_starts(ps, t) ==
    UNION {IF first_alternative(ps, 1, s, t).found THEN {s} ELSE {} : s \in 1..(Len(t) + 1)}

\* re.search over alternatives: the leftmost position where one matches
re_search_alternatives(ps, t) ==
    With(alternative_starts(ps, t),
         LAMBDA starts : IF starts = {} THEN NoMatch
                         ELSE first_alternative(ps, 1, Least(starts), t))

\* ------------------------------------------------------------------------
\* Python values held by a record: None, a str, a list of str, a dict
\* ------------------------------------------------------------------------

PyNone == [t |-> "none", v |-> <<>>]

PyStr(s) == [t |-> "str", v |-> s]

PyList(items) == [t |-> "list", v |-> items]

PyDict(d) == [t |-> "dict", v |-> d]

\* s[:n] of a sequence
Prefix(s, n) == SubSeq(s, 1, IF Len(s) < n THEN Len(s) ELSE n)

\* the first value of a sequence of candidates that passes Ok, else None
first_valid(cands, Ok(_)) ==
    LET hits == {i \in 1..Len(cands) : Ok(cands[i])}
    IN  IF hits = {} THEN PyNone ELSE PyStr(cands[Least(hits)])

\* ------------------------------------------------------------------------
\* document_extractor.py: DocumentExtractor
\* ------------------------------------------------------------------------

NotAvailable == <<"N", "o", "t", " ", "A", "v", "a", "i", "l", "a", "b", "l", "e">>

DeliveryChallan == <<"D", "e", "l", "i", "v", "e", "r", "y", " ", "C", "h", "a", "l", "l", "a", "n">>

TaxInvoice == <<"T", "a", "x", " ", "I", "n", "v", "o", "i", "c", "e">>

Invoice == <<"I", "n", "v", "o", "i", "c", "e">>

UnknownDocument == <<"U", "n", "k", "n", "o", "w", "n", " ", "D", "o", "c", "u", "m", "e", "n", "t">>

supplier_keywords ==
    << <<"L", "I", "M", "I", "T", "E", "D">>, <<"L", "T", "D">>, <<"P", "V", "T">>, <<"P", "R", "I", "V", "A", "T", "E">>, <<"C", "O", "R", "P">>, <<"C", "O", "R", "P", "O", "R", "A", "T", "I", "O", "N">>,
       <<"C", "O", "M", "P", "A", "N", "Y">>, <<"C", "O", ".">>, <<"E", "L", "E", "C", "T", "R", "O", "N", "I", "C", "S">>, <<"S", "O", "L", "U", "T", "I", "O", "N", "S">>, <<"E", "N", "T", "E", "R", "P", "R", "I", "S", "E", "S">>,
       <<"I", "N", "D", "U", "S", "T", "R", "I", "E", "S">>, <<"G", "R", "O", "U", "P">>, <<"W", "O", "R", "L", "D", "W", "I", "D", "E">>, <<"G", "L", "O", "B", "A", "L">>, <<"I", "N", "T", "E", "R", "N", "A", "T", "I", "O", "N", "A", "L">> >>

\* [:\-\s]
LabelSep == {":", "-"} \union Whitespace

\* [A-Z0-9\/\-\._]
DocNoChar == UpperL \union Digit \union {"/", "-", ".", "_"}

\* [\/\-\.]
DateSep == {"/", "-", "."}

\* [\$?EUR]: the euro sign is written as the one character "EUR"
CurrencySign == {"$", "?", "EUR"}

\* ([\d]{1,2}[\/\-\.][\d]{1,2}[\/\-\.][\d]{2,4})
DateGroup ==
    << Cls(Digit, 1, 2), Cls(DateSep, 1, 1), Cls(Digit, 1, 2),
       Cls(DateSep, 1, 1), Cls(Digit, 2, 4) >>

\* clean_text_lines: stripped lines longer than two characters
clean_text_lines(lines) ==
    LET stripped == [i \in 1..Len(lines) |-> str_strip(lines[i])]
    IN  SelectSeq(stripped, LAMBDA line : line # <<>> /\ Len(line) > 2)

ChallanWords == << <<"D", "E", "L", "I", "V", "E", "R", "Y", " ", "C", "H", "A", "L", "L", "A", "N">>, <<"D", "C", " ", "N", "O">>, <<"C", "H", "A", "L", "L", "A", "N", " ", "N", "O">> >>

TaxInvoiceWords == << <<"T", "A", "X", " ", "I", "N", "V", "O", "I", "C", "E">>, <<"G", "S", "T", " ", "I", "N", "V", "O", "I", "C", "E">> >>

InvoiceWords == << <<"I", "N", "V", "O", "I", "C", "E">>, <<"I", "N", "V", " ", "N", "O">>, <<"B", "I", "L", "L", " ", "N", "O">> >>

\* the mutant checks the tax-invoice group before the challan group
detect_document_type_invoice_first(text, lines) ==
    LET text_upper == str_upper(text)
    IN  IF any_contains(text_upper, TaxInvoiceWords) THEN TaxInvoice
        ELSE IF any_contains(text_upper, ChallanWords) THEN DeliveryChallan
        ELSE IF any_contains(text_upper, InvoiceWords) THEN Invoice
        ELSE UnknownDocument

detect_document_type(text, lines) ==
    LET text_upper == str_upper(text)
    IN  IF any_contains(text_upper, ChallanWords) THEN DeliveryChallan
        ELSE IF any_contains(text_upper, TaxInvoiceWords) THEN TaxInvoice
        ELSE IF any_contains(text_upper, InvoiceWords) THEN Invoice
        ELSE UnknownDocument

SupplierExcludes == << <<"G", "S", "T">>, <<"I", "N", "V", "O", "I", "C", "E">>, <<"C", "H", "A", "L", "L", "A", "N">>, <<"D", "A", "T", "E">>, <<"T", "O", ":">> >>

extract_supplier_name(text, lines, doc_type) ==
    LET head == Prefix(lines, 10)
        named == {i \in 1..Len(head) :
                     /\ any_contains(str_upper(head[i]), supplier_keywords)
                     /\ Len(head[i]) > 5
                     /\ ~any_contains(str_upper(head[i]), SupplierExcludes)}
        aboveGst == {i \in 1..Len(lines) :
                     /\ str_contains(str_upper(lines[i]), <<"G", "S", "T">>)
                     /\ i > 1
                     /\ Len(lines[i - 1]) > 5}
    IN  IF named # {} THEN PyStr(str_strip(head[Least(named)]))
        ELSE IF aboveGst # {} THEN PyStr(str_strip(lines[Least(aboveGst) - 1]))
        ELSE PyNone

\* [0-9A-Z]
GstChar == Digit \union UpperL

GstPatterns ==
    IgnoreCaseAll(<< Pat(Lit(<<"G", "S", "T">>) \o <<ClsMany(LabelSep, 0)>> \o Lit(<<"N", "O">>) \o <<ClsMany(LabelSep, 0)>>,
           <<Cls(GstChar, 15, 15)>>, <<>>),
       Pat(Lit(<<"G", "S", "T", "I", "N">>) \o <<ClsMany(LabelSep, 0)>>, <<Cls(GstChar, 15, 15)>>, <<>>),
       Pat(Lit(<<"G", "S", "T">>) \o <<ClsMany(LabelSep, 0)>>, <<Cls(GstChar, 15, 15)>>, <<>>),
       Pat(<<>>, <<Cls(GstChar, 2, 2), Cls(GstChar, 13, 13)>>, <<>>) >>)

\* str.isalnum() (ASCII part)
str_isalnum(s) == s # <<>> /\ \A i \in 1..Len(s) : s[i] \in Letter \union Digit

\* the groups re.findall gives for each pattern in turn, in the order the
\* nested loops "for pattern ... for match in matches" visit them
RECURSIVE findall_each(_, _, _)
findall_each(patterns, k, text) ==
    IF k > Len(patterns) THEN <<>>
    ELSE re_findall(patterns[k], text) \o findall_each(patterns, k + 1, text)

\* the group of re.search for each pattern that matches, in pattern order
RECURSIVE search_each(_, _, _)
search_each(patterns, k, text) ==
    IF k > Len(patterns) THEN <<>>
    ELSE LET m == re_search(patterns[k], text)
         IN  (IF m.found THEN <<m.group>> ELSE <<>>) \o search_each(patterns, k + 1, text)

strip_each(cands) == [i \in 1..Len(cands) |-> str_strip(cands[i])]

extract_gst_number(text) ==
    first_valid(strip_each(findall_each(GstPatterns, 1, text)),
                LAMBDA gst_no : Len(gst_no) = 15 /\ str_isalnum(gst_no))

DocNoPattern(label) == Pat(label \o <<ClsMany(LabelSep, 0)>>, <<ClsMany(DocNoChar, 1)>>, <<>>)

ChallanNoPatterns ==
    IgnoreCaseAll(<< DocNoPattern(Lit(<<"D", "C">>) \o <<ClsMany(Whitespace, 0)>> \o Lit(<<"N", "O">>)),
       DocNoPattern(Lit(<<"D", "E", "L", "I", "V", "E", "R", "Y">>) \o <<ClsMany(Whitespace, 0)>> \o Lit(<<"C", "H", "A", "L", "L", "A", "N">>)
                    \o <<ClsMany(Whitespace, 0)>> \o Lit(<<"N", "O">>)),
       DocNoPattern(Lit(<<"C", "H", "A", "L", "L", "A", "N">>) \o <<ClsMany(Whitespace, 0)>> \o Lit(<<"N", "O">>)) >>)

InvoiceNoPatterns ==
    IgnoreCaseAll(<< DocNoPattern(Lit(<<"I", "N", "V", "O", "I", "C", "E">>) \o <<ClsMany(Whitespace, 0)>> \o Lit(<<"N", "O">>)),
       DocNoPattern(Lit(<<"I", "N", "V">>) \o <<ClsMany(Whitespace, 0)>> \o Lit(<<"N", "O">>)),
       DocNoPattern(Lit(<<"B", "I", "L", "L">>) \o <<ClsMany(Whitespace, 0)>> \o Lit(<<"N", "O">>)) >>)

extract_document_number(text, doc_type) ==
    LET patterns == IF doc_type = DeliveryChallan THEN ChallanNoPatterns
                    ELSE InvoiceNoPatterns
    IN  first_valid(strip_each(search_each(patterns, 1, text)),
                    LAMBDA doc_no : 3 <= Len(doc_no) /\ Len(doc_no) <= 50)

DatePattern(label) == Pat(label \o <<ClsMany(LabelSep, 0)>>, DateGroup, <<>>)

DatePatterns ==
    IgnoreCaseAll(<< DatePattern(Lit(<<"D", "C">>) \o <<ClsMany(Whitespace, 0)>> \o Lit(<<"D", "A", "T", "E">>)),
       DatePattern(Lit(<<"I", "N", "V", "O", "I", "C", "E">>) \o <<ClsMany(Whitespace, 0)>> \o Lit(<<"D", "A", "T", "E">>)),
       DatePattern(Lit(<<"D", "A", "T", "E">>)) >>)

\* re.match(r'^\d{1,2}[\/\-\.]\d{1,2}[\/\-\.]\d{2,4}$', date_str)
ValidDatePattern == Pat(<<Anchor("bos")>>, DateGroup, <<Anchor("eos")>>)

\* _validate_date
validate_date(date_str) == match_at(ValidDatePattern, 1, date_str).found

extract_document_date(text, doc_type) ==
    first_valid(strip_each(findall_each(DatePatterns, 1, text)), validate_date)

\* float(amount) for the decimal notation: an optional sign, digits with at
\* most one point, at least one digit
float_parses(amount) ==
    LET body == IF amount # <<>> /\ amount[1] \in {"+", "-"}
                THEN SubSeq(amount, 2, Len(amount)) ELSE amount
    IN  /\ \A i \in 1..Len(body) : body[i] \in Digit \union {"."}
        /\ Cardinality({i \in 1..Len(body) : body[i] = "."}) <= 1
        /\ \E i \in 1..Len(body) : body[i] \in Digit

\* the digits before the point, leading zeros dropped
int_digits(amount) ==
    LET body == SelectSeq(amount, LAMBDA c : c \notin {"+", "-"})
        dots == {i \in 1..Len(body) : body[i] = "."}
        whole == IF dots = {} THEN body ELSE SubSeq(body, 1, Least(dots) - 1)
        nonzero == {i \in 1..Len(whole) : whole[i] # "0"}
    IN  IF nonzero = {} THEN <<>> ELSE SubSeq(whole, Least(nonzero), Len(whole))

\* the mutant accepts zero: 0 <= float_amount
validate_amount_accepts_zero(amount) ==
    /\ float_parses(amount)
    /\ amount[1] # "-"
    /\ Len(int_digits(amount)) <= 9

\* _validate_amount: 0 < float(amount) < 1000000000, False when float raises.
\* The value is positive when it has no minus sign and a non-zero digit, and
\* below one billion when its whole part has at most nine digits.
validate_amount(amount) ==
    /\ float_parses(amount)
    /\ amount[1] # "-"
    /\ \E i \in 1..Len(amount) : amount[i] \in Digit \ {"0"}
    /\ Len(int_digits(amount)) <= 9

\* [:\-\s]*[\$?EUR]?\s*([\d,]+\.?\d{0,2})
AmountPattern(label) ==
    Pat(label \o <<ClsMany(LabelSep, 0), Cls(CurrencySign, 0, 1), ClsMany(Whitespace, 0)>>,
        <<ClsMany(Digit \union {","}, 1), Cls({"."}, 0, 1), Cls(Digit, 0, 2)>>,
        <<>>)

TotalPatterns ==
    IgnoreCaseAll(<< AmountPattern(Lit(<<"T", "O", "T", "A", "L">>)),
       AmountPattern(Lit(<<"G", "R", "A", "N", "D">>) \o <<ClsMany(Whitespace, 0)>> \o Lit(<<"T", "O", "T", "A", "L">>)),
       AmountPattern(Lit(<<"T", "O", "T", "A", "L">>) \o <<ClsMany(Whitespace, 0)>> \o Lit(<<"V", "A", "L", "U", "E">>)) >>)

\* match.strip().replace(',', '') of every candidate
amount_of(cands) == [i \in 1..Len(cands) |-> str_remove_char(str_strip(cands[i]), ",")]

extract_total_amount(text) ==
    first_valid(amount_of(findall_each(TotalPatterns, 1, text)), validate_amount)

RestOfLine == <<NotClsMany({"\n"}, 1)>>

CustomerPattern(label) ==
    Pat(label \o <<ClsMany(LabelSep, 0), Cls({"\n"}, 0, 1), ClsMany(Whitespace, 0)>>,
        RestOfLine, <<>>)

CustomerPatterns ==
    IgnoreCaseAll(<< CustomerPattern(Lit(<<"T", "O">>)),
       CustomerPattern(Lit(<<"B", "I", "L", "L">>) \o <<ClsMany(Whitespace, 0)>> \o Lit(<<"T", "O">>)),
       CustomerPattern(Lit(<<"C", "U", "S", "T", "O", "M", "E", "R">>)) >>)

\* ^\s*(M/s|M/s\.|M/s\s|TO\s*:)\s*
HonorificPrefix(alt) ==
    Pat(<<Anchor("bos"), ClsMany(Whitespace, 0)>>, alt, <<ClsMany(Whitespace, 0)>>)

HonorificPatterns ==
    IgnoreCaseAll(<< HonorificPrefix(Lit(<<"M", "/", "s">>)),
       HonorificPrefix(Lit(<<"M", "/", "s">>) \o <<Cls({"."}, 1, 1)>>),
       HonorificPrefix(Lit(<<"M", "/", "s">>) \o <<Cls(Whitespace, 1, 1)>>),
       HonorificPrefix(Lit(<<"T", "O">>) \o <<ClsMany(Whitespace, 0)>> \o Lit(<<":">>)) >>)

\* re.sub(honorific, '', customer): the pattern is anchored at the start
strip_honorific(customer) ==
    LET m == first_alternative(HonorificPatterns, 1, 1, customer)
    IN  IF m.found THEN SubSeq(customer, m.end, Len(customer)) ELSE customer

extract_customer_name(text, lines) ==
    LET cands == strip_each(search_each(CustomerPatterns, 1, text))
        cleaned == [i \in 1..Len(cands) |-> strip_honorific(cands[i])]
    IN  first_valid(cleaned, LAMBDA customer : customer # <<>> /\ Len(customer) > 3)

DispatchPatterns ==
    IgnoreCaseAll(<< Pat(Lit(<<"T", "H", "R", "O", "U", "G", "H">>) \o <<ClsMany(LabelSep, 0)>>, RestOfLine, <<>>),
       Pat(Lit(<<"D", "I", "S", "P", "A", "T", "C", "H">>) \o <<ClsMany(Whitespace, 0)>> \o Lit(<<"M", "O", "D", "E">>)
           \o <<ClsMany(LabelSep, 0)>>, RestOfLine, <<>>),
       Pat(Lit(<<"B", "Y">>) \o <<ClsMany(Whitespace, 0)>>, <<NotClsMany({"\n", ","}, 1)>>, <<>>) >>)

extract_dispatch_mode(text) ==
    first_valid(strip_each(search_each(DispatchPatterns, 1, text)),
                LAMBDA mode : mode # <<>> /\ Len(mode) > 2)

\* \d+[,.]?\d*\s*(NOS|PCS|UNITS|QTY)
QuantityPattern(unit) ==
    Pat(<<ClsMany(Digit, 1), Cls({",", "."}, 0, 1), ClsMany(Digit, 0), ClsMany(Whitespace, 0)>>,
        Lit(unit), <<>>)

QuantityPatterns ==
    << QuantityPattern(<<"N", "O", "S">>), QuantityPattern(<<"P", "C", "S">>),
       QuantityPattern(<<"U", "N", "I", "T", "S">>), QuantityPattern(<<"Q", "T", "Y">>) >>

AggregateWords == << <<"T", "O", "T", "A", "L">>, <<"S", "U", "B", "T", "O", "T", "A", "L">>, <<"G", "R", "A", "N", "D">> >>

is_line_item(line) ==
    /\ re_search_alternatives(QuantityPatterns, str_upper(line)).found
    /\ Len(line) > 10
    /\ ~any_contains(str_upper(line), AggregateWords)
    /\ \E i \in 1..Len(line) : line[i] \in Letter

extract_line_items(text) ==
    PyList(strip_each(SelectSeq(str_split(text, "\n"), is_line_item)))

address_keywords ==
    << <<"R", "O", "A", "D">>, <<"S", "T", "R", "E", "E", "T">>, <<"A", "V", "E", "N", "U", "E">>, <<"L", "A", "N", "E">>, <<"P", "O", "S", "T">>, <<"P", "I", "N">>, <<"C", "I", "T", "Y">>, <<"S", "T", "A", "T", "E">> >>

extract_addresses(lines) ==
    PyList(strip_each(SelectSeq(lines,
                LAMBDA line : any_contains(str_upper(line), address_keywords))))

\* [\+\(]?[1-9][0-9 .\-\(\)]{8,}[0-9]
phone_pattern ==
    Pat(<<>>,
        << Cls({"+", "("}, 0, 1), Cls(Digit \ {"0"}, 1, 1),
           ClsMany(Digit \union {" ", ".", "-", "(", ")"}, 8), Cls(Digit, 1, 1) >>,
        <<>>)

\* [A-Za-z0-9._%+-]
EmailLocalChar == Letter \union Digit \union {".", "_", "%", "+", "-"}

\* \b[A-Za-z0-9._%+-]+@[A-Za-z0-9.-]+\.[A-Z|a-z]{2,}\b
email_pattern ==
    Pat(<<>>,
        << Anchor("wordb"), ClsMany(EmailLocalChar, 1), Cls({"@"}, 1, 1),
           ClsMany(Letter \union Digit \union {".", "-"}, 1), Cls({"."}, 1, 1),
           ClsMany(Letter \union {"|"}, 2), Anchor("wordb") >>,
        <<>>)

extract_contacts(text) ==
    PyDict([k \in {"phones", "emails"} |->
        IF k = "phones" THEN PyList(Prefix(re_findall(phone_pattern, text), 3))
        ELSE PyList(Prefix(re_findall(email_pattern, text), 3))])

extract_metadata(text, lines) ==
    PyDict([k \in {"addresses", "contacts"} |->
        IF k = "addresses" THEN extract_addresses(lines) ELSE extract_contacts(text)])

\* _extract_with_patterns: the stripped group of the first pattern that
\* matches, with no validation
extract_with_patterns(patterns, text) ==
    LET cands == strip_each(search_each(patterns, 1, text))
    IN  IF cands = <<>> THEN PyNone ELSE PyStr(cands[1])

PurposePatterns == IgnoreCaseAll(<< Pat(Lit(<<"P", "U", "R", "P", "O", "S", "E">>) \o <<ClsMany(LabelSep, 0)>>, RestOfLine, <<>>) >>)

extract_purpose(text) == extract_with_patterns(PurposePatterns, text)

PartyDc == Lit(<<"P", "A", "R", "T", "Y">>) \o <<ClsMany(Whitespace, 0)>> \o Lit(<<"D", "C">>)

PartyDcNumberPatterns ==
    IgnoreCaseAll(<< DocNoPattern(PartyDc),
       DocNoPattern(PartyDc \o <<ClsMany(Whitespace, 0)>> \o Lit(<<"N", "O">>)) >>)

extract_party_dc_number(text) == extract_with_patterns(PartyDcNumberPatterns, text)

PartyDcDatePatterns ==
    IgnoreCaseAll(<< DatePattern(PartyDc \o <<ClsMany(Whitespace, 0)>> \o Lit(<<"D", "A", "T", "E">>)) >>)

extract_party_dc_date(text) == extract_with_patterns(PartyDcDatePatterns, text)

\* the mutant keeps None values (the "value is None" branch is lost)
clean_value_keeps_none(value) ==
    IF value.t = "str" /\ str_strip(value.v) = <<>> THEN PyStr(NotAvailable) ELSE value

\* clean_extracted_data, one value that is not a dict: None and blank
\* strings become the sentinel, lists and other strings are kept
clean_value(value) ==
    IF value.t = "none" THEN PyStr(NotAvailable)
    ELSE IF value.t = "list" THEN value
    ELSE IF value.t = "str" /\ str_strip(value.v) = <<>> THEN PyStr(NotAvailable)
    ELSE value

\* clean_extracted_data: a dict is cleaned key by key, nested dicts
\* recursively
RECURSIVE clean_extracted_data(_)
clean_extracted_data(data) ==
    [key \in DOMAIN data |->
        IF data[key].t = "dict" THEN PyDict(clean_extracted_data(data[key].v))
        ELSE clean_value(data[key])]

\* ------------------------------------------------------------------------
\* PDF files.  A file is missing, not openable as a PDF, or a PDF with
\* pages; a page's extract_text() raises or gives its text layer (empty
\* when the page has none), and scan is what is printed on the page, which
\* OCR reads.  "invalid" is a pdf_path argument that is no path at all
\* (os.path.exists raises TypeError).
\* ------------------------------------------------------------------------

Page(text) == [fails |-> FALSE, text |-> text, scan |-> text]

\* a scanned page: no text layer, only the picture of the words
ScannedPage(scan) == [fails |-> FALSE, text |-> <<>>, scan |-> scan]

FailingPage == [fails |-> TRUE, text |-> <<>>, scan |-> <<>>]

Pdf(pages) == [kind |-> "pdf", pages |-> pages]

NoPdf(kind) == [kind |-> kind, pages |-> <<>>]

\* the result of a block that may raise
Returned(value) == [raised |-> FALSE, value |-> value]

RaisedException == [raised |-> TRUE, value |-> <<>>]

\* the body of DocumentExtractor.extract_text_from_pdf's try block: the
\* text of the pages with a newline after each, raising when the file does
\* not open or a page's extract_text() raises
RECURSIVE pages_text(_, _)
pages_text(pages, i) ==
    IF i > Len(pages) THEN Returned(<<>>)
    ELSE IF pages[i].fails THEN RaisedException
    ELSE LET rest == pages_text(pages, i + 1)
         IN  IF rest.raised THEN RaisedException
             ELSE Returned((IF pages[i].text # <<>> THEN pages[i].text \o <<"\n">> ELSE <<>>)
                           \o rest.value)

\* DocumentExtractor.extract_text_from_pdf: "" when anything raised
extract_text_from_pdf(file) ==
    LET body == IF file.kind # "pdf" THEN RaisedException ELSE pages_text(file.pages, 1)
    IN  IF body.raised THEN Returned(<<>>) ELSE body

\* the mutant takes blank text for text
text_is_blank_never(text) == FALSE

\* not text.strip()
text_is_blank(text) == str_strip(text) = <<>>

CommonFields ==
    {"document_type", "supplier_name", "gst_no", "document_number", "document_date",
     "total_amount", "customer_name", "dispatch_mode", "line_items", "metadata"}

ChallanFields == {"purpose", "party_dc_number", "party_dc_date"}

\* the mutant adds the challan fields to every record
has_challan_fields_always(doc_type) == TRUE

\* if doc_type == "Delivery Challan"
has_challan_fields(doc_type) == doc_type = DeliveryChallan

\* the extracted_data dict of extract_document_info, before cleaning
build_extracted_data(text, lines, doc_type) ==
    [key \in CommonFields \union (IF has_challan_fields(doc_type) THEN ChallanFields ELSE {}) |->
        CASE key = "document_type"   -> PyStr(doc_type)
          [] key = "supplier_name"   -> extract_supplier_name(text, lines, doc_type)
          [] key = "gst_no"          -> extract_gst_number(text)
          [] key = "document_number" -> extract_document_number(text, doc_type)
          [] key = "document_date"   -> extract_document_date(text, doc_type)
          [] key = "total_amount"    -> extract_total_amount(text)
          [] key = "customer_name"   -> extract_customer_name(text, lines)
          [] key = "dispatch_mode"   -> extract_dispatch_mode(text)
          [] key = "line_items"      -> extract_line_items(text)
          [] key = "metadata"        -> extract_metadata(text, lines)
          [] key = "purpose"         -> extract_purpose(text)
          [] key = "party_dc_number" -> extract_party_dc_number(text)
          [] key = "party_dc_date"   -> extract_party_dc_date(text)]

Pending == [t |-> "pending", v |-> <<>>]

Escaped == [t |-> "raised", v |-> <<>>]

\* the mutant re-raises from the outer handler
on_extraction_error_reraise == Escaped

\* except Exception: ... return None (the outer handler)
on_extraction_error == PyNone

\* ------------------------------------------------------------------------
\* app.py: the helper, correction and extraction functions
\* ------------------------------------------------------------------------

OcrThreshold == 30

\* "".join(page.extract_text() or "" for page in pages), raising when a
\* page's extract_text() raises
RECURSIVE joined_pages_text(_, _)
joined_pages_text(pages, i) ==
    IF i > Len(pages) THEN Returned(<<>>)
    ELSE IF pages[i].fails THEN RaisedException
    ELSE LET rest == joined_pages_text(pages, i + 1)
         IN  IF rest.raised THEN RaisedException
             ELSE Returned(pages[i].text \o rest.value)

\* is_image_pdf: fewer than 30 extractable characters per page on average;
\* True when the file cannot be read, a page raises, or there is no page
\* (the division raises)
is_image_pdf(pdf) ==
    IF pdf.kind # "pdf" \/ pdf.pages = <<>> THEN TRUE
    ELSE LET joined == joined_pages_text(pdf.pages, 1)
         IN  IF joined.raised THEN TRUE
             ELSE Len(str_strip(joined.value)) < OcrThreshold * Len(pdf.pages)

\* the searchable PDF ocrmypdf writes with force_ocr: every page's text
\* layer is what is printed on the page
ocr_output(pdf) ==
    Pdf([i \in 1..Len(pdf.pages) |->
            [fails |-> FALSE, text |-> pdf.pages[i].scan, scan |-> pdf.pages[i].scan]])

\* the outcomes of perform_ocr on a file: ocrmypdf raises on what is no PDF,
\* and may raise on any PDF
ocr_outcomes(pdf) == IF pdf.kind = "pdf" THEN {TRUE, FALSE} ELSE {FALSE}

\* the page loop of app.py's extract_text_from_pdf: a page that raises is
\* skipped, the text of the others is appended with nothing in between
RECURSIVE app_pages_text(_, _)
app_pages_text(pages, i) ==
    IF i > Len(pages) THEN <<>>
    ELSE (IF pages[i].fails THEN <<>> ELSE pages[i].text) \o app_pages_text(pages, i + 1)

\* app.py's extract_text_from_pdf: "" when the file does not open
app_extract_text_from_pdf(pdf) ==
    IF pdf.kind # "pdf" THEN <<>> ELSE app_pages_text(pdf.pages, 1)

\* str.replace(old, new) for a one-character old
str_replace_char(t, old, new) == [i \in 1..Len(t) |-> IF t[i] = old THEN new ELSE t[i]]

\* str.replace('Z3', 'ZJ'): the occurrences cannot overlap
replace_z3(t) ==
    [i \in 1..Len(t) |-> IF i > 1 /\ t[i] = "3" /\ t[i - 1] = "Z" THEN "J" ELSE t[i]]

\* clean_gst_number: upper case, only A-Z and 0-9 kept, then the OCR
\* corrections O -> 0, I -> 1, Z3 -> ZJ in this order; the value is
\* returned whether or not it then has the GSTIN shape
clean_gst_number(gst_text) ==
    IF gst_text = <<>> THEN PyNone
    ELSE LET upper == str_strip(str_upper(gst_text))
             alnum == SelectSeq(upper, LAMBDA c : c \in UpperL \union Digit)
         IN  PyStr(replace_z3(str_replace_char(str_replace_char(alnum, "O", "0"), "I", "1")))

\* ^[^A-Za-z]+
LeadingJunk == Pat(<<Anchor("bos")>>, <<NotClsMany(Letter, 1)>>, <<>>)

\* [^A-Za-z0-9\s\-\)&]+$
TrailingJunk ==
    Pat(<<>>, <<NotClsMany(Letter \union Digit \union Whitespace \union {"-", ")", "&"}, 1)>>,
        <<Anchor("eos")>>)

\* \b[a-zA-Z]$
StrayLetter == Pat(<<Anchor("wordb")>>, <<Cls(Letter, 1, 1)>>, <<Anchor("eos")>>)

\* \s{2,}
WhitespaceRun == Pat(<<>>, <<ClsMany(Whitespace, 2)>>, <<>>)

\* re.sub(p, repl, t) for a pattern with no anchor: every non-overlapping
\* match replaced by repl
RECURSIVE re_sub(_, _, _)
re_sub(p, repl, t) ==
    With(re_search(p, t), LAMBDA m :
        IF ~m.found THEN t
        ELSE SubSeq(t, 1, m.start - 1) \o repl \o
             (IF m.end > Len(t) THEN <<>>
              ELSE IF m.end > m.start THEN re_sub(p, repl, SubSeq(t, m.end, Len(t)))
              ELSE SubSeq(t, m.end, Len(t))))

\* re.sub of a pattern anchored at the start: only the first match counts
re_sub_leading(p, t) ==
    With(match_at(p, 1, t), LAMBDA m : IF m.found THEN SubSeq(t, m.end, Len(t)) ELSE t)

\* re.sub of a pattern anchored at the end: the leftmost match reaches it
re_sub_trailing(p, t) ==
    With(re_search(p, t), LAMBDA m :
        IF m.found THEN SubSeq(t, 1, m.start - 1) \o SubSeq(t, m.end, Len(t)) ELSE t)

\* clean_supplier_name
clean_supplier_name(name) ==
    IF name = <<>> THEN PyNone
    ELSE With(re_sub_leading(LeadingJunk, str_strip(name)), LAMBDA noLead :
         With(re_sub_trailing(TrailingJunk, noLead), LAMBDA noTrail :
         With(IF re_search(StrayLetter, noTrail).found
              THEN str_strip(SubSeq(noTrail, 1, Len(noTrail) - 1))
              ELSE noTrail, LAMBDA noStray :
             PyStr(str_strip(re_sub(WhitespaceRun, <<" ">>, noStray))))))

\* \b\d{2}[a-z0-9]{10}[a-z0-9]{3}\b
GstTokenEls ==
    << Anchor("wordb"), Cls(Digit, 2, 2), Cls(LowerL \union Digit, 10, 10),
       Cls(LowerL \union Digit, 3, 3), Anchor("wordb") >>

gst_pattern == IgnoreCase(Pat(<<>>, GstTokenEls, <<>>))

\* (label)\s*[:\-]?\s*
LabelledGst(label) ==
    Pat(<<>>,
        label \o <<ClsMany(Whitespace, 0), Cls({":", "-"}, 0, 1), ClsMany(Whitespace, 0)>>
              \o GstTokenEls,
        <<>>)

\* gstin | gst\s*no | gst\s*number | gst\s*# | gst\s*num | gst\s*registration\s*no
combined_pattern ==
    IgnoreCaseAll(
    << LabelledGst(Lit(<<"g", "s", "t", "i", "n">>)),
       LabelledGst(Lit(<<"g", "s", "t">>) \o <<ClsMany(Whitespace, 0)>> \o Lit(<<"n", "o">>)),
       LabelledGst(Lit(<<"g", "s", "t">>) \o <<ClsMany(Whitespace, 0)>> \o Lit(<<"n", "u", "m", "b", "e", "r">>)),
       LabelledGst(Lit(<<"g", "s", "t">>) \o <<ClsMany(Whitespace, 0)>> \o Lit(<<"#">>)),
       LabelledGst(Lit(<<"g", "s", "t">>) \o <<ClsMany(Whitespace, 0)>> \o Lit(<<"n", "u", "m">>)),
       LabelledGst(Lit(<<"g", "s", "t">>) \o <<ClsMany(Whitespace, 0)>> \o Lit(<<"r", "e", "g", "i", "s", "t", "r", "a", "t", "i", "o", "n">>)
                   \o <<ClsMany(Whitespace, 0)>> \o Lit(<<"n", "o">>)) >>)

\* app.py's extract_gst_number: the labelled token, else the first token
app_extract_gst_number(text) ==
    With(str_lower(str_replace_char(str_replace_char(text, "\n", " "), "\r", " ")), LAMBDA flat :
    With(re_search_alternatives(combined_pattern, flat), LAMBDA match :
    With(IF match.found THEN re_search(gst_pattern, match.group) ELSE NoMatch, LAMBDA gst_match :
        IF gst_match.found THEN clean_gst_number(gst_match.group)
        ELSE With(re_search(gst_pattern, flat), LAMBDA fallback_match :
                 IF fallback_match.found THEN clean_gst_number(fallback_match.group)
                 ELSE PyNone))))

\* the pieces str.splitlines() gives, empty ones included or not: the list
\* comprehension drops the blank ones
RECURSIVE split_at(_, _)
split_at(t, seps) ==
    With({i \in 1..Len(t) : t[i] \in seps}, LAMBDA hits :
        IF hits = {} THEN <<t>>
        ELSE With(Least(hits), LAMBDA i :
                 <<SubSeq(t, 1, i - 1)>>
                 \o With(SubSeq(t, i + 1, Len(t)), LAMBDA rest : split_at(rest, seps))))

\* [line.strip() for line in text.splitlines() if line.strip()]
stripped_lines(text) ==
    SelectSeq(strip_each(split_at(text, {"\n", "\r", "\f"})), LAMBDA line : line # <<>>)

\* GST\s*No[:\-]?\s*([A-Z0-9]{15})
GstNoLine ==
    IgnoreCase(Pat(Lit(<<"G", "S", "T">>) \o <<ClsMany(Whitespace, 0)>> \o Lit(<<"N", "o">>)
                   \o <<Cls({":", "-"}, 0, 1), ClsMany(Whitespace, 0)>>,
                   <<Cls(GstChar, 15, 15)>>, <<>>))

HeaderWords ==
    << <<"F", "O", "R", "M">>, <<"D", "E", "L", "I", "V", "E", "R", "Y">>, <<"C", "H", "A", "L", "L", "A", "N">>, <<"R", "E", "T", "U", "R", "N", "A", "B", "L", "E">>, <<"P", "A", "R", "T", "Y">>, <<"D", "C">>, <<"D", "A", "T", "E">>,
       <<"T", "O">>, <<"P", "U", "R", "P", "O", "S", "E">>, <<"N", "O">>, <<"R", "E", "V">> >>

\* (LTD|LIMITED|PVT|PRIVATE|INDUSTRIES|ENTERPRISES|PLANT|CORP|COMPANY)
CompanyWords ==
    << <<"L", "T", "D">>, <<"L", "I", "M", "I", "T", "E", "D">>, <<"P", "V", "T">>, <<"P", "R", "I", "V", "A", "T", "E">>, <<"I", "N", "D", "U", "S", "T", "R", "I", "E", "S">>, <<"E", "N", "T", "E", "R", "P", "R", "I", "S", "E", "S">>,
       <<"P", "L", "A", "N", "T">>, <<"C", "O", "R", "P">>, <<"C", "O", "M", "P", "A", "N", "Y">> >>

ShippingWords == << <<"T", "O">>, <<"D", "E", "L", "I", "V", "E", "R", "Y">>, <<"C", "H", "A", "L", "L", "A", "N">>, <<"R", "E", "T", "U", "R", "N", "A", "B", "L", "E">> >>

\* [A-Za-z]{3,}
ThreeLetters == Pat(<<>>, <<ClsMany(Letter, 3)>>, <<>>)

\* extract_supplier_info: (supplier_name, gst_number)
extract_supplier_info(text) ==
    LET gst_line(lns) ==
            With({i \in 1..Len(lns) : re_search(GstNoLine, lns[i]).found}, LAMBDA gstLines :
                IF gstLines = {} THEN 0 ELSE Least(gstLines))
        above(lns, i) ==
            {j \in (IF i - 4 > 1 THEN i - 4 ELSE 1)..(i - 1) :
                /\ ~any_contains(str_upper(lns[j]), HeaderWords)
                /\ re_search(ThreeLetters, lns[j]).found
                /\ Len(lns[j]) > 5}
        company(head) ==
            {j \in 1..Len(head) :
                /\ any_contains(str_upper(head[j]), CompanyWords)
                /\ ~any_contains(str_upper(head[j]), ShippingWords)}
    IN  With(stripped_lines(text), LAMBDA lns :
        With(gst_line(lns), LAMBDA i :
        With(IF i = 0 THEN PyNone
             ELSE clean_gst_number(str_strip(re_search(GstNoLine, lns[i]).group)),
             LAMBDA gst_number :
        With(IF i = 0 THEN {} ELSE above(lns, i), LAMBDA candidates :
        With(IF candidates = {} THEN PyNone
             ELSE clean_supplier_name(lns[Least(candidates)]), LAMBDA byGst :
            IF byGst.t = "str" /\ byGst.v # <<>> THEN <<byGst, gst_number>>
            ELSE With(company(Prefix(lns, 10)), LAMBDA found :
                     IF found = {} THEN <<byGst, gst_number>>
                     ELSE <<clean_supplier_name(lns[Least(found)]), gst_number>>))))))

\* (?:Invoice|Challan|DC|Bill|Document)[\s]*No[:\s]*([^\n]+)
NumberLabel(word) ==
    Pat(Lit(word) \o <<ClsMany(Whitespace, 0)>> \o Lit(<<"N", "o">>)
        \o <<ClsMany(Whitespace \union {":"}, 0)>>, RestOfLine, <<>>)

DocumentNumberPatterns ==
    IgnoreCaseAll(
    << NumberLabel(<<"I", "n", "v", "o", "i", "c", "e">>), NumberLabel(<<"C", "h", "a", "l", "l", "a", "n">>), NumberLabel(<<"D", "C">>),
       NumberLabel(<<"B", "i", "l", "l">>), NumberLabel(<<"D", "o", "c", "u", "m", "e", "n", "t">>) >>)

\* (?:Date|Dated|Invoice Date|Bill Date)[:\s]*([^\n]+)
DateLabel(word) ==
    Pat(Lit(word) \o <<ClsMany(Whitespace \union {":"}, 0)>>, RestOfLine, <<>>)

DocumentDatePatterns ==
    IgnoreCaseAll(
    << DateLabel(<<"D", "a", "t", "e">>), DateLabel(<<"D", "a", "t", "e", "d">>), DateLabel(<<"I", "n", "v", "o", "i", "c", "e", " ", "D", "a", "t", "e">>),
       DateLabel(<<"B", "i", "l", "l", " ", "D", "a", "t", "e">>) >>)

\* value or 'Not Available'
or_not_available(value) ==
    IF value.t = "str" /\ value.v # <<>> THEN value ELSE PyStr(NotAvailable)

\* parse_common_data
parse_common_data(text) ==
    With(re_search_alternatives(DocumentNumberPatterns, text), LAMBDA number :
    With(re_search_alternatives(DocumentDatePatterns, text), LAMBDA date :
    With(or_not_available(app_extract_gst_number(text)), LAMBDA gst_no :
        [key \in {"document_number", "document_date", "gst_no"} |->
            CASE key = "document_number" ->
                     IF number.found THEN PyStr(str_strip(number.group)) ELSE PyStr(NotAvailable)
              [] key = "document_date" ->
                     IF date.found THEN PyStr(str_strip(date.group)) ELSE PyStr(NotAvailable)
              [] key = "gst_no" -> gst_no])))

\* the extracted_data extract_data renders: parse_common_data merged with
\* extract_supplier_info
request_record(text) ==
    With(extract_supplier_info(text), LAMBDA info :
    With(parse_common_data(text), LAMBDA parsed_data :
        [key \in {"document_number", "document_date", "gst_no", "supplier_name"} |->
            CASE key = "supplier_name" -> or_not_available(info[1])
              [] key = "gst_no" ->
                     IF info[2].t = "str" /\ info[2].v # <<>> /\ info[2].v # NotAvailable
                     THEN info[2] ELSE parsed_data[key]
              [] OTHER -> parsed_data[key]]))

\* extract_document_info: the locals and the returned value.  The path that
\* is no path raises inside os.path.exists and reaches the outer handler; a
\* missing file, an exception of text extraction and blank text return None.
extract_document_info(pdf) ==
    LET none == [text |-> <<>>, lines |-> <<>>, doc_type |-> <<>>,
                 extracted_data |-> <<>>, result |-> PyNone]
        analyze(txt) ==
            With(clean_text_lines(str_split(txt, "\n")), LAMBDA lns :
            With(detect_document_type(txt, lns), LAMBDA dtype :
            With(build_extracted_data(txt, lns, dtype), LAMBDA extracted :
                [text |-> txt, lines |-> lns, doc_type |-> dtype,
                 extracted_data |-> extracted,
                 result |-> PyDict(clean_extracted_data(extracted))])))
    IN  IF pdf.kind = "invalid" THEN [none EXCEPT !.result = on_extraction_error]
        ELSE IF pdf.kind = "missing" THEN none
        ELSE With(extract_text_from_pdf(pdf), LAMBDA extraction :
                 IF extraction.raised THEN none
                 ELSE IF text_is_blank(extraction.value)
                      THEN [none EXCEPT !.text = extraction.value]
                      ELSE analyze(extraction.value))

\* ------------------------------------------------------------------------
\* State
\* ------------------------------------------------------------------------

VARIABLES
    file,            \* the file at pdf_path of extract_document_info
    pc,              \* "start" before the call, "done" after it
    text,            \* extract_document_info's text (the input of a pure function)
    lines,           \* its lines
    doc_type,        \* its doc_type
    extracted_data,  \* its extracted_data
    result,          \* what the call returned: Pending before it returns
    amount,          \* the argument of a call of _validate_amount
    valid,           \* what that call returned
    uploads,         \* the files of UPLOAD_FOLDER, by name
    temps,           \* each request's NamedTemporaryFile
    req              \* each /extract request: its position and locals

vars ==
    <<file, pc, text, lines, doc_type, extracted_data, result, amount, valid,
      uploads, temps, req>>

\* the variables of the calls of DocumentExtractor's methods
call_vars == <<file, pc, text, lines, doc_type, extracted_data, result, amount, valid>>

\* ------------------------------------------------------------------------
\* The /extract requests when none is being served
\* ------------------------------------------------------------------------

MaxRequests == 2

Requests == 1..MaxRequests

FileNames == {"a.pdf", "b.pdf"}

Missing == NoPdf("missing")

\* the zero-byte file NamedTemporaryFile creates
EmptyFile == NoPdf("unopenable")

NoResponse == [status |-> 0, error |-> "", data |-> <<>>]

IdleRequest ==
    [pc |-> "idle", has_file |-> FALSE, filename |-> "", content |-> Missing,
     needs_ocr |-> FALSE, ocr_ok |-> FALSE, pdf_to_use |-> "", read |-> Missing,
     text |-> <<>>, response |-> NoResponse]

NoRequests ==
    /\ uploads = [n \in FileNames |-> Missing]
    /\ temps = [r \in Requests |-> Missing]
    /\ req = [r \in Requests |-> IdleRequest]

\* no call of _validate_amount on its own
NoValidation ==
    /\ amount = <<>>
    /\ valid = FALSE

\* ------------------------------------------------------------------------
\* Input documents of the extraction
\* ------------------------------------------------------------------------

MaxPages == 2

ChallanPage ==
    <<"D", "E", "L", "I", "V", "E", "R", "Y", " ", "C", "H", "A", "L", "L", "A", "N", "\n", "A", "C", "M", "E", " ", "I", "N", "D", "U", "S", "T", "R", "I", "E", "S", " ", "L", "T", "D", "\n", "G", "S", "T", "I", "N", ":", " ", "2", "7", "A", "A", "P", "F", "U", "0", "9", "3", "9", "F", "1", "Z", "V", "\n", "D", "C", " ", "N", "o", ":", " ", "D", "C", "/", "0", "0", "1", "\n", "D", "C", " ", "D", "a", "t", "e", ":", " ", "0", "1", "/", "0", "2", "/", "2", "0", "2", "4", "\n", "P", "u", "r", "p", "o", "s", "e", ":", " ", "J", "o", "b", " ", "W", "o", "r", "k", "\n", "P", "a", "r", "t", "y", " ", "D", "C", " ", "N", "o", ":", " ", "P", "-", "7", "7">>

InvoicePage ==
    <<"T", "a", "x", " ", "I", "n", "v", "o", "i", "c", "e", "\n", "I", "n", "v", "o", "i", "c", "e", " ", "N", "o", ":", " ", "I", "N", "V", "-", "4", "2", "\n", "B", "i", "l", "l", " ", "T", "o", ":", " ", "M", "/", "s", " ", "B", "o", "l", "t", " ", "T", "r", "a", "d", "e", "r", "s", "\n", "T", "O", "T", "A", "L", ":", " ", "1", ",", "2", "5", "0", ".", "0", "0">>

ItemsPage ==
    <<"W", "i", "d", "g", "e", "t", " ", "A", "s", "s", "e", "m", "b", "l", "y", " ", "2", "5", " ", "N", "O", "S", "\n", "1", "2", " ", "M", "a", "i", "n", " ", "R", "o", "a", "d", " ", "P", "u", "n", "e", "\n", "s", "a", "l", "e", "s", "@", "a", "c", "m", "e", ".", "c", "o", " ", "+", "9", "1", " ", "9", "8", "7", "6", "5", " ", "4", "3", "2", "1", "0", "\n", "T", "h", "r", "o", "u", "g", "h", ":", " ", "R", "o", "a", "d", " ", "C", "a", "r", "r", "i", "e", "r">>

BlankPurposePage == <<"d", "e", "l", "i", "v", "e", "r", "y", " ", "c", "h", "a", "l", "l", "a", "n", "\n", "P", "U", "R", "P", "O", "S", "E", ":", " ", " ">>

PlainPage == <<"B", "i", "l", "l", " ", "N", "o", " ", "7", " ", "d", "a", "t", "e", "d", " ", "t", "o", "d", "a", "y">>

LetterPage == <<"D", "e", "a", "r", " ", "S", "i", "r", ",", " ", "t", "h", "a", "n", "k", " ", "y", "o", "u">>

WhitespacePage == <<" ", "\n", " ">>

PageTexts ==
    {ChallanPage, InvoicePage, ItemsPage, BlankPurposePage, PlainPage, LetterPage,
     WhitespacePage, <<>>}

Pages == {Page(t) : t \in PageTexts} \union {FailingPage}

Files ==
    {NoPdf("invalid"), NoPdf("missing"), NoPdf("unopenable")}
    \union {Pdf(ps) : ps \in UNION {[1..n -> Pages] : n \in 0..MaxPages}}

\* ------------------------------------------------------------------------
\* Spec: one call of DocumentExtractor.extract_document_info
\* ------------------------------------------------------------------------

Init ==
    /\ file \in Files
    /\ pc = "start"
    /\ text = <<>>
    /\ lines = <<>>
    /\ doc_type = <<>>
    /\ extracted_data = <<>>
    /\ result = Pending
    /\ NoValidation
    /\ NoRequests

ExtractDocumentInfo ==
    /\ pc = "start"
    /\ \E run \in {extract_document_info(file)} :
         /\ text' = run.text
         /\ lines' = run.lines
         /\ doc_type' = run.doc_type
         /\ extracted_data' = run.extracted_data
         /\ result' = run.result
    /\ pc' = "done"
    /\ UNCHANGED <<file, amount, valid, uploads, temps, req>>

Next == ExtractDocumentInfo

Spec == Init /\ [][Next]_vars

\* the file is one that text extraction is run on
IsExtracted == pc = "done" /\ file.kind \in {"pdf", "unopenable"}

\* the text of the pages that extract, a newline after each, in page order
RECURSIVE readable_pages_text(_, _)
readable_pages_text(pages, i) ==
    IF i > Len(pages) THEN <<>>
    ELSE (IF pages[i].fails \/ pages[i].text = <<>> THEN <<>> ELSE pages[i].text \o <<"\n">>)
         \o readable_pages_text(pages, i + 1)

StringFields == CommonFields \ {"line_items", "metadata"}

\* a value is a str that is the sentinel or is not blank
IsFilledString(value) ==
    value.t = "str" /\ (value.v = NotAvailable \/ str_strip(value.v) # <<>>)

\* a record with every declared key, strings filled, lists for the list fields
IsNormalized(rec) ==
    /\ CommonFields \subseteq DOMAIN rec
    /\ \A key \in DOMAIN rec \ {"line_items", "metadata"} : IsFilledString(rec[key])
    /\ rec["line_items"].t = "list"
    /\ rec["metadata"].t = "dict"
    /\ DOMAIN rec["metadata"].v = {"addresses", "contacts"}
    /\ rec["metadata"].v["addresses"].t = "list"
    /\ rec["metadata"].v["contacts"].t = "dict"
    /\ DOMAIN rec["metadata"].v["contacts"].v = {"phones", "emails"}
    /\ rec["metadata"].v["contacts"].v["phones"].t = "list"
    /\ rec["metadata"].v["contacts"].v["emails"].t = "list"

\* C1: whatever the input path is (no path, a missing file, a file that does
\* not open, a PDF with a page that raises, any text), no exception escapes
\* extract_document_info: the call ends returning None or a record.
ExtractionNeverRaises ==
    /\ result # Escaped
    /\ pc = "done" => result = PyNone \/ (result.t = "dict" /\ IsNormalized(result.v))

\* C1 witness: the path that raised inside the call, answered with None
ErrorPathReturnsNone == pc = "done" /\ file.kind = "invalid" /\ result = PyNone

\* C2 as stated: when text extraction yields the empty string, the extractors
\* still run and the call returns the all-sentinel record of an unknown
\* document.
EmptyTextGivesSentinelRecord ==
    (IsExtracted /\ text = <<>>) =>
        /\ result.t = "dict"
        /\ IsNormalized(result.v)
        /\ result.v["document_type"].v = UnknownDocument
        /\ \A key \in StringFields \ {"document_type"} : result.v[key].v = NotAvailable
        /\ result.v["line_items"].v = <<>>

\* C2 amended: when text extraction yields the empty string or only
\* whitespace, the call returns None and no extractor has run.
BlankTextGivesNone ==
    (IsExtracted /\ str_strip(text) = <<>>) => (result = PyNone /\ extracted_data = <<>>)

\* C2 witness: a PDF with pages whose text is blank
BlankPdfReturnsNone ==
    /\ IsExtracted
    /\ file.kind = "pdf"
    /\ file.pages # <<>>
    /\ \A i \in 1..Len(file.pages) : ~file.pages[i].fails
    /\ text # <<>>
    /\ str_strip(text) = <<>>
    /\ result = PyNone

\* C4 as stated: a page whose extraction fails is skipped, and the text
\* still holds the text of every page that extracts, in page order.
FailedPageIsSkipped ==
    (pc = "done" /\ file.kind = "pdf") => text = readable_pages_text(file.pages, 1)

\* C5: a returned record has every declared key at every level, no None,
\* every string field the sentinel or a value that is not blank, and every
\* list field a list.
RecordIsNormalized == result.t = "dict" => IsNormalized(result.v)

\* C5 witness: a record whose extraction gave a None and a blank string
NoneAndBlankNormalized ==
    /\ result.t = "dict"
    /\ "purpose" \in DOMAIN extracted_data
    /\ extracted_data["purpose"] = PyStr(<<>>)
    /\ extracted_data["gst_no"] = PyNone
    /\ result.v["purpose"] = PyStr(NotAvailable)
    /\ result.v["gst_no"] = PyStr(NotAvailable)

\* C10: a returned record has the keys purpose, party_dc_number and
\* party_dc_date exactly when its document_type is "Delivery Challan", and
\* that type is the one doc_type computed for the extraction.
ChallanFieldsIffChallan ==
    result.t = "dict" =>
        /\ result.v["document_type"] = PyStr(doc_type)
        /\ extracted_data["document_number"] = extract_document_number(text, doc_type)
        /\ IF doc_type = DeliveryChallan
           THEN DOMAIN result.v = CommonFields \union ChallanFields
           ELSE DOMAIN result.v = CommonFields

\* C10 witness: a challan record with the three keys
ChallanRecordHasFields ==
    /\ result.t = "dict"
    /\ result.v["document_type"].v = DeliveryChallan
    /\ ChallanFields \subseteq DOMAIN result.v

\* ------------------------------------------------------------------------
\* SpecClassify: detect_document_type on texts made of keyword chunks
\* ------------------------------------------------------------------------

MaxChunks == 2

ClassifyChunks ==
    {<<"D", "e", "l", "i", "v", "e", "r", "y", " ", "C", "h", "a", "l", "l", "a", "n">>, <<"d", "c", " ", "n", "o", " ", "4">>, <<"C", "H", "A", "L", "L", "A", "N", " ", "N", "O">>, <<"T", "a", "x", " ", "I", "n", "v", "o", "i", "c", "e">>, <<"g", "s", "t", " ", "i", "n", "v", "o", "i", "c", "e">>,
     <<"i", "n", "v", "o", "i", "c", "e">>, <<"I", "n", "v", " ", "N", "o", " ", "9">>, <<"b", "i", "l", "l", " ", "n", "o">>, <<"r", "e", "c", "e", "i", "p", "t">>}

\* the chunks of a sequence, one per line
RECURSIVE join_lines(_)
join_lines(chunks) ==
    IF chunks = <<>> THEN <<>>
    ELSE IF Len(chunks) = 1 THEN chunks[1]
    ELSE chunks[1] \o <<"\n">> \o join_lines(Tail(chunks))

ClassifyTexts ==
    {join_lines(cs) : cs \in UNION {[1..n -> ClassifyChunks] : n \in 0..MaxChunks}}

InitClassify ==
    /\ text \in ClassifyTexts
    /\ lines = clean_text_lines(str_split(text, "\n"))
    /\ pc = "start"
    /\ doc_type = <<>>
    /\ result = Pending
    /\ file = Missing
    /\ extracted_data = <<>>
    /\ NoValidation
    /\ NoRequests

\* doc_type = self.detect_document_type(text, lines)
DetectDocumentType ==
    /\ pc = "start"
    /\ doc_type' = detect_document_type(text, lines)
    /\ pc' = "classified"
    /\ UNCHANGED <<file, text, lines, extracted_data, result, amount, valid,
                   uploads, temps, req>>

\* the same text classified once more
DetectDocumentTypeAgain ==
    /\ pc = "classified"
    /\ result' = PyStr(detect_document_type(text, lines))
    /\ pc' = "reclassified"
    /\ UNCHANGED <<file, text, lines, doc_type, extracted_data, amount, valid,
                   uploads, temps, req>>

NextClassify == DetectDocumentType \/ DetectDocumentTypeAgain

SpecClassify == InitClassify /\ [][NextClassify]_vars

\* the text holds one of the keywords, in any letter case
HasKeyword(t, keywords) ==
    \E word \in keywords : \E i \in 1..(Len(t) - Len(word) + 1) :
        str_lower(SubSeq(t, i, i + Len(word) - 1)) = word

ChallanKeywords == {<<"d", "e", "l", "i", "v", "e", "r", "y", " ", "c", "h", "a", "l", "l", "a", "n">>, <<"d", "c", " ", "n", "o">>, <<"c", "h", "a", "l", "l", "a", "n", " ", "n", "o">>}

TaxInvoiceKeywords == {<<"t", "a", "x", " ", "i", "n", "v", "o", "i", "c", "e">>, <<"g", "s", "t", " ", "i", "n", "v", "o", "i", "c", "e">>}

InvoiceKeywords == {<<"i", "n", "v", "o", "i", "c", "e">>, <<"i", "n", "v", " ", "n", "o">>, <<"b", "i", "l", "l", " ", "n", "o">>}

\* C7: the keyword groups are checked in any letter case in the order
\* Delivery Challan, Tax Invoice, Invoice, Unknown Document and the first
\* group with a keyword in the text gives the type, so a text with a challan
\* keyword is a Delivery Challan whatever else it holds; classifying the same
\* text again gives the same type.
ClassificationIsOrdered ==
    /\ pc \in {"classified", "reclassified"} =>
         doc_type = IF HasKeyword(text, ChallanKeywords) THEN DeliveryChallan
                    ELSE IF HasKeyword(text, TaxInvoiceKeywords) THEN TaxInvoice
                    ELSE IF HasKeyword(text, InvoiceKeywords) THEN Invoice
                    ELSE UnknownDocument
    /\ pc = "reclassified" => result = PyStr(doc_type)

\* C7 witness: a text with a challan keyword not in upper case and
\* "tax invoice", classified twice as a Delivery Challan
ChallanWinsOverTaxInvoice ==
    /\ pc = "reclassified"
    /\ HasKeyword(text, ChallanKeywords)
    /\ ~str_contains(text, <<"D", "E", "L", "I", "V", "E", "R", "Y", " ", "C", "H", "A", "L", "L", "A", "N">>)
    /\ HasKeyword(text, {<<"t", "a", "x", " ", "i", "n", "v", "o", "i", "c", "e">>})
    /\ doc_type = DeliveryChallan
    /\ result = PyStr(DeliveryChallan)

\* ------------------------------------------------------------------------
\* SpecAmount: extract_total_amount on texts of labelled amounts, and
\* _validate_amount on candidates
\* ------------------------------------------------------------------------

MaxLines == 2

GrandTotalLines == {<<"G", "r", "a", "n", "d", " ", "T", "o", "t", "a", "l", ":", " ", "$", " ", "5", "0", "0">>, <<"G", "R", "A", "N", "D", " ", "T", "O", "T", "A", "L", " ", "7", "5", "0", ".", "5", "0">>}

PlainTotalLines == {<<"T", "O", "T", "A", "L", " ", "3", "0", "0">>, <<"T", "o", "t", "a", "l", ":", " ", "1", "2", ",", "3", "4", ",", "5", "6", "7", ".", "0", "0">>}

RejectedLines == {<<"T", "O", "T", "A", "L", " ", "0">>, <<"t", "o", "t", "a", "l", ":", " ", "0", ".", "0", "0">>, <<"T", "o", "t", "a", "l", " ", "5", "0", "0", "0", "0", "0", "0", "0", "0", "0">>, <<"T", "O", "T", "A", "L", ":", " ", ",">>}

OtherAmountLines == {<<"T", "O", "T", "A", "L", " ", "-", "5", "0">>, <<"T", "o", "t", "a", "l", " ", "V", "a", "l", "u", "e", ":", " ", "E", "U", "R", " ", "1", ",", "2", "5", "0", ".", "0", "0">>, <<"N", "e", "t", " ", "p", "a", "y", "a", "b", "l", "e", " ", "7", "5">>}

AmountLines == GrandTotalLines \union PlainTotalLines \union RejectedLines \union OtherAmountLines

AmountTexts ==
    {join_lines(ls) : ls \in UNION {[1..n -> AmountLines] : n \in 0..MaxLines}}

AmountCandidates ==
    {<<"-", "5", "0">>, <<"5", "0", "0", "0", "0", "0", "0", "0", "0", "0">>, <<"0">>, <<"0", ".", "0", "0">>, <<>>, <<"1", "2", "3", "4", "5", "6", "7", ".", "0", "0">>, <<"9", "9", "9", "9", "9", "9", "9", "9", "9", ".", "9", "9">>,
     <<"1", "0", "0", "0", "0", "0", "0", "0", "0", "0">>, <<"0", ".", "0", "1">>, <<"5", "0">>}

InitAmount ==
    /\ \/ /\ text \in AmountTexts
          /\ pc = "start"
          /\ amount = <<>>
       \/ /\ text = <<>>
          /\ pc = "candidate"
          /\ amount \in AmountCandidates
    /\ valid = FALSE
    /\ result = Pending
    /\ lines = <<>>
    /\ doc_type = <<>>
    /\ file = Missing
    /\ extracted_data = <<>>
    /\ NoRequests

\* 'total_amount': self.extract_total_amount(text)
ExtractTotalAmount ==
    /\ pc = "start"
    /\ result' = extract_total_amount(text)
    /\ pc' = "extracted"
    /\ UNCHANGED <<file, text, lines, doc_type, extracted_data, amount, valid,
                   uploads, temps, req>>

\* self._validate_amount(amount)
ValidateAmount ==
    /\ pc = "candidate"
    /\ valid' = validate_amount(amount)
    /\ pc' = "validated"
    /\ UNCHANGED <<file, text, lines, doc_type, extracted_data, result, amount,
                   uploads, temps, req>>

NextAmount == ExtractTotalAmount \/ ValidateAmount

SpecAmount == InitAmount /\ [][NextAmount]_vars

\* the text is the two lines, in one of the two orders
IsPairOf(t, a, b) == t = join_lines(<<a, b>>) \/ t = join_lines(<<b, a>>)

\* the amount written on a line of GrandTotalLines or PlainTotalLines
LineAmount(line) ==
    CASE line = <<"G", "r", "a", "n", "d", " ", "T", "o", "t", "a", "l", ":", " ", "$", " ", "5", "0", "0">>  -> <<"5", "0", "0">>
      [] line = <<"G", "R", "A", "N", "D", " ", "T", "O", "T", "A", "L", " ", "7", "5", "0", ".", "5", "0">>  -> <<"7", "5", "0", ".", "5", "0">>
      [] line = <<"T", "O", "T", "A", "L", " ", "3", "0", "0">>           -> <<"3", "0", "0">>
      [] line = <<"T", "o", "t", "a", "l", ":", " ", "1", "2", ",", "3", "4", ",", "5", "6", "7", ".", "0", "0">> -> <<"1", "2", "3", "4", "5", "6", "7", ".", "0", "0">>

\* C8 as stated: for a text with a valid amount after a GRAND TOTAL label and
\* a different valid amount after a plain TOTAL label, in either order of
\* appearance, the returned amount is the GRAND TOTAL one.
GrandTotalIsPreferred ==
    \A g \in GrandTotalLines : \A p \in PlainTotalLines :
        (pc = "extracted" /\ IsPairOf(text, g, p)) => result = PyStr(LineAmount(g))

\* the digits before the decimal point of an amount
WholePart(a) ==
    LET points == {i \in 1..Len(a) : a[i] = "."}
    IN  IF points = {} THEN a ELSE SubSeq(a, 1, Least(points) - 1)

\* C9: a returned amount has no thousands separator and is a number greater
\* than 0 and less than 1,000,000,000 (digits with at most one point, a digit
\* that is not 0, at most nine digits before the point once leading zeros
\* are dropped); zero, "-50" and amounts of a billion or more are rejected,
\* and "12,34,567.00" is returned as "1234567.00".
AmountIsValidated ==
    /\ (pc = "extracted" /\ result # PyNone) =>
         /\ result.t = "str"
         /\ \A i \in 1..Len(result.v) : result.v[i] \in Digit \union {"."}
         /\ Cardinality({i \in 1..Len(result.v) : result.v[i] = "."}) <= 1
         /\ \E i \in 1..Len(result.v) : result.v[i] \in Digit \ {"0"}
         /\ \E k \in 0..Len(WholePart(result.v)) :
              /\ Len(WholePart(result.v)) - k <= 9
              /\ \A i \in 1..k : WholePart(result.v)[i] = "0"
    /\ (pc = "extracted" /\ text = <<"T", "o", "t", "a", "l", ":", " ", "1", "2", ",", "3", "4", ",", "5", "6", "7", ".", "0", "0">>) => result = PyStr(<<"1", "2", "3", "4", "5", "6", "7", ".", "0", "0">>)
    /\ (pc = "validated" /\ amount \in {<<"-", "5", "0">>, <<"5", "0", "0", "0", "0", "0", "0", "0", "0", "0">>, <<"1", "0", "0", "0", "0", "0", "0", "0", "0", "0">>, <<"0">>, <<"0", ".", "0", "0">>})
         => ~valid
    /\ (pc = "validated" /\ amount \in {<<"1", "2", "3", "4", "5", "6", "7", ".", "0", "0">>, <<"9", "9", "9", "9", "9", "9", "9", "9", "9", ".", "9", "9">>, <<"0", ".", "0", "1">>}) => valid

\* C9 witness: the comma-formatted amount returned without its separators
\* though a zero amount comes first in the text
SeparatorsStripped ==
    /\ pc = "extracted"
    /\ text = join_lines(<<<<"T", "O", "T", "A", "L", " ", "0">>, <<"T", "o", "t", "a", "l", ":", " ", "1", "2", ",", "3", "4", ",", "5", "6", "7", ".", "0", "0">>>>)
    /\ result = PyStr(<<"1", "2", "3", "4", "5", "6", "7", ".", "0", "0">>)

\* ------------------------------------------------------------------------
\* SpecApp: the /extract requests of app.py, served concurrently.  A request
\* is a step at each access to the file system: the save of the upload, the
\* check of the saved file, the OCR run, and the read of the file to use
\* with the response that follows it.
\* ------------------------------------------------------------------------

\* a text PDF with more than OcrThreshold characters on its page
InvoiceDoc ==
    Pdf(<<Page(<<"A", "C", "M", "E", " ", "I", "N", "D", "U", "S", "T", "R", "I", "E", "S", " ", "L", "T", "D", "\n", "G", "S", "T", " ", "N", "o", ":", " ", "2", "7", "A", "A", "P", "F", "U", "0", "9", "3", "9", "F", "1", "Z", "V", "\n", "I", "n", "v", "o", "i", "c", "e", " ", "N", "o", ":", " ", "I", "N", "V", "-", "4", "2">>)>>)

BillDoc ==
    Pdf(<<Page(<<"B", "O", "L", "T", " ", "T", "R", "A", "D", "E", "R", "S", " ", "P", "V", "T", "\n", "G", "S", "T", " ", "N", "o", ":", " ", "2", "9", "A", "B", "C", "D", "E", "1", "2", "3", "4", "F", "1", "Z", "5", "\n", "B", "i", "l", "l", " ", "N", "o", ":", " ", "7">>)>>)

\* a text PDF with fewer than OcrThreshold characters on its page
ShortDoc == Pdf(<<Page(<<"G", "S", "T", " ", "N", "o", ":", " ", "2", "7", "A", "A", "P", "F", "U", "0", "9", "3", "9", "F", "1", "Z", "V">>)>>)

\* a scanned PDF
ScanDoc == Pdf(<<ScannedPage(<<"I", "n", "v", "o", "i", "c", "e", " ", "N", "o", ":", " ", "9">>)>>)

\* an upload that is no PDF
GarbageDoc == NoPdf("unopenable")

AppDocs == {InvoiceDoc, BillDoc, ShortDoc, ScanDoc, GarbageDoc}

Response(status, error, data) == [status |-> status, error |-> error, data |-> data]

InitApp ==
    /\ NoRequests
    /\ pc = "serving"
    /\ file = Missing
    /\ text = <<>>
    /\ lines = <<>>
    /\ doc_type = <<>>
    /\ extracted_data = <<>>
    /\ result = Pending
    /\ NoValidation

\* extract_data, lines 196-201: no file part, or a file part with no name
RejectRequest(r) ==
    /\ req[r].pc = "idle"
    /\ \E error \in {"No file uploaded", "No file selected"} :
         req' = [req EXCEPT ![r] =
                    [@ EXCEPT !.pc = "done",
                              !.has_file = (error = "No file selected"),
                              !.response = Response(400, error, <<>>)]]
    /\ UNCHANGED <<uploads, temps, call_vars>>

\* extract_data, lines 203-207: the upload is saved under the name the
\* client gave it, and an empty temporary file is created for the OCR output
SaveUpload(r) ==
    /\ req[r].pc = "idle"
    /\ \E filename \in FileNames : \E content \in AppDocs :
         /\ uploads' = [uploads EXCEPT ![filename] = content]
         /\ req' = [req EXCEPT ![r] =
                       [@ EXCEPT !.pc = "saved", !.has_file = TRUE,
                                 !.filename = filename, !.content = content]]
    /\ temps' = [temps EXCEPT ![r] = EmptyFile]
    /\ UNCHANGED call_vars

\* extract_data, line 210: needs_ocr = is_image_pdf(input_path); a text PDF
\* is the file to use
CheckImage(r) ==
    /\ req[r].pc = "saved"
    /\ LET needs_ocr == is_image_pdf(uploads[req[r].filename])
       IN  req' = [req EXCEPT ![r] =
                      [@ EXCEPT !.pc = IF needs_ocr THEN "ocr" ELSE "extract",
                                !.needs_ocr = needs_ocr,
                                !.pdf_to_use = IF needs_ocr THEN "" ELSE "input"]]
    /\ UNCHANGED <<uploads, temps, call_vars>>

\* extract_data, lines 212-213: perform_ocr writes the searchable PDF to the
\* temporary file or fails and writes nothing; its result is not looked at
\* and the temporary file is the file to use
PerformOcr(r) ==
    /\ req[r].pc = "ocr"
    /\ \E ok \in ocr_outcomes(uploads[req[r].filename]) :
         /\ temps' = IF ok THEN [temps EXCEPT ![r] = ocr_output(uploads[req[r].filename])]
                     ELSE temps
         /\ req' = [req EXCEPT ![r] =
                       [@ EXCEPT !.pc = "extract", !.ocr_ok = ok, !.pdf_to_use = "output"]]
    /\ UNCHANGED <<uploads, call_vars>>

\* extract_data, lines 218-238: the text of the file to use, the record made
\* of it, the response, and the temporary file removed
ExtractAndRespond(r) ==
    /\ req[r].pc = "extract"
    /\ \E pdf \in {IF req[r].pdf_to_use = "input" THEN uploads[req[r].filename] ELSE temps[r]} :
       \E txt \in {app_extract_text_from_pdf(pdf)} :
       \E parsed_data \in {request_record(txt)} :
         req' = [req EXCEPT ![r] =
                    [@ EXCEPT !.pc = "done", !.read = pdf, !.text = txt,
                              !.response = Response(200, "", parsed_data)]]
    /\ temps' = [temps EXCEPT ![r] = Missing]
    /\ UNCHANGED <<uploads, call_vars>>

NextApp ==
    \/ \E r \in Requests : RejectRequest(r)
    \/ \E r \in Requests : SaveUpload(r)
    \/ \E r \in Requests : CheckImage(r)
    \/ \E r \in Requests : PerformOcr(r)
    \/ \E r \in Requests : ExtractAndRespond(r)

SpecApp == InitApp /\ [][NextApp]_vars

\* C3 as stated: when OCR is needed and the OCR step fails, text extraction
\* reads the uploaded PDF, not the OCR output path, and the request completes
\* with a record.
OcrFailureReadsOriginal ==
    \A r \in Requests :
        (req[r].pc = "done" /\ req[r].needs_ocr /\ ~req[r].ocr_ok) =>
            /\ req[r].pdf_to_use = "input"
            /\ req[r].response.status = 200

\* the records a request for a document gets when it is served alone
OwnRecords(doc) ==
    IF is_image_pdf(doc)
    THEN {request_record(app_extract_text_from_pdf(IF ok THEN ocr_output(doc) ELSE EmptyFile)) :
             ok \in ocr_outcomes(doc)}
    ELSE {request_record(app_extract_text_from_pdf(doc))}

\* C6 as stated: concurrent requests share no mutable resource: the record
\* of a request depends only on the document it uploaded, also when both
\* uploads have the same file name, and a request reads no file the other
\* wrote.
RequestsShareNothing ==
    \A r \in Requests :
        (req[r].pc = "done" /\ req[r].response.status = 200) =>
            /\ req[r].response.data \in OwnRecords(req[r].content)
            /\ req[r].pdf_to_use = "input" => req[r].read = req[r].content

\* ------------------------------------------------------------------------
\* SpecGst: the two extract_gst_number functions on the line "GSTIN: <token>"
\* for tokens of the GSTIN grammar
\* ------------------------------------------------------------------------

\* 2 digits
GstStateCodes == {<<"2", "7">>, <<"0", "9">>}

\* 5 letters
GstHolderLetters == {<<"A", "A", "P", "F", "U">>, <<"A", "O", "P", "F", "U">>, <<"A", "B", "I", "D", "E">>, <<"G", "S", "T", "N", "O">>}

\* 4 digits
GstHolderDigits == {<<"0", "9", "3", "9">>, <<"1", "2", "3", "4">>}

\* 1 letter
GstHolderChecks == {<<"F">>, <<"Z">>}

\* 1 alphanumeric
GstEntityChars == {<<"1">>, <<"3">>, <<"A">>}

\* 1 alphanumeric after the literal Z
GstCheckChars == {<<"V">>, <<"3">>, <<"5">>}

\* tokens of the grammar: 2 digits, 5 letters, 4 digits, 1 letter,
\* 1 alphanumeric, Z, 1 alphanumeric
GstTokens ==
    {state \o holder \o digits \o check \o entity \o <<"Z">> \o last :
        state \in GstStateCodes, holder \in GstHolderLetters, digits \in GstHolderDigits,
        check \in GstHolderChecks, entity \in GstEntityChars, last \in GstCheckChars}

GstinLabel == <<"G", "S", "T", "I", "N", ":", " ">>

GstLines == {GstinLabel \o token : token \in GstTokens}

\* the token of a line of GstLines
GstToken(line) == SubSeq(line, Len(GstinLabel) + 1, Len(line))

\* the token has the shape clean_gst_number validates against:
\* ^[0-9]{2}[A-Z]{5}[0-9]{4}[A-Z]{1}[1-9A-Z]{1}Z[A-Z0-9]{1}$
IsGstin(t) ==
    /\ Len(t) = 15
    /\ \A i \in {1, 2} \union (8..11) : t[i] \in Digit
    /\ \A i \in (3..7) \union {12} : t[i] \in UpperL
    /\ t[13] \in UpperL \union (Digit \ {"0"})
    /\ t[14] = "Z"
    /\ t[15] \in UpperL \union Digit

InitGst ==
    /\ text \in GstLines
    /\ pc = "start"
    /\ result = Pending
    /\ lines = <<>>
    /\ doc_type = <<>>
    /\ file = Missing
    /\ extracted_data = <<>>
    /\ NoValidation
    /\ NoRequests

\* DocumentExtractor: 'gst_no': self.extract_gst_number(text)
ExtractGstNumber ==
    /\ pc = "start"
    /\ result' = extract_gst_number(text)
    /\ pc' = "extracted"
    /\ UNCHANGED <<file, text, lines, doc_type, extracted_data, amount, valid,
                   uploads, temps, req>>

\* app.py's parse_common_data: extract_gst_number(text)
AppExtractGstNumber ==
    /\ pc = "start"
    /\ \E gst_no \in {app_extract_gst_number(text)} : result' = gst_no
    /\ pc' = "app_extracted"
    /\ UNCHANGED <<file, text, lines, doc_type, extracted_data, amount, valid,
                   uploads, temps, req>>

NextGst == ExtractGstNumber \/ AppExtractGstNumber

SpecGst == InitGst /\ [][NextGst]_vars

\* C11 as stated: for every 15-character token of the grammar, extracting
\* from the line "GSTIN: <token>" returns the token unchanged, by
\* DocumentExtractor.extract_gst_number and by app.py's extract_gst_number
\* with its clean_gst_number: no OCR correction alters a valid token.
GstinRoundTrip ==
    (pc \in {"extracted", "app_extracted"} /\ IsGstin(GstToken(text)))
        => result = PyStr(GstToken(text))

\* ------------------------------------------------------------------------
\* SpecSupplier: clean_supplier_name on names with junk before and after
\* ------------------------------------------------------------------------

MaxJunk == 3

\* characters that are no letters, before the name
LeadingSymbols == {"*", "7"}

\* junk symbols, after the name
TrailingSymbols == {"#", "*"}

\* the strings of up to MaxJunk characters of a set
JunkOf(symbols) == UNION {[1..n -> symbols] : n \in 0..MaxJunk}

\* names that end with their own closing punctuation
ClosedNames == {<<"A", "C", "M", "E", " ", "I", "N", "D", "U", "S", "T", "R", "I", "E", "S", " ", "L", "T", "D", ".">>, <<"B", "O", "L", "T", " ", "(", "I", "N", "D", "I", "A", ")">>}

\* names that end with a word
WordNames == {<<"A", "C", "M", "E", " ", "I", "N", "D", "U", "S", "T", "R", "I", "E", "S", " ", "L", "T", "D">>, <<"B", "O", "L", "T", " ", "&", " ", "C", "O">>}

\* names followed by a single stray letter
StrayNames == {<<"A", "C", "M", "E", " ", "T", "R", "A", "D", "E", "R", "S", " ", "q">>, <<"B", "O", "L", "T", " ", "S", "T", "E", "E", "L", " ", "x">>}

SupplierCores == ClosedNames \union WordNames \union StrayNames

SupplierNames ==
    {lead \o core \o trail :
        lead \in JunkOf(LeadingSymbols), core \in SupplierCores,
        trail \in JunkOf(TrailingSymbols)}

InitSupplier ==
    /\ text \in SupplierNames
    /\ pc = "start"
    /\ result = Pending
    /\ lines = <<>>
    /\ doc_type = <<>>
    /\ file = Missing
    /\ extracted_data = <<>>
    /\ NoValidation
    /\ NoRequests

\* extract_supplier_info: supplier_name = clean_supplier_name(line)
CleanSupplierName ==
    /\ pc = "start"
    /\ \E supplier_name \in {clean_supplier_name(text)} : result' = supplier_name
    /\ pc' = "cleaned"
    /\ UNCHANGED <<file, text, lines, doc_type, extracted_data, amount, valid,
                   uploads, temps, req>>

NextSupplier == CleanSupplierName

SpecSupplier == InitSupplier /\ [][NextSupplier]_vars

\* the name without the stray letter that follows it
WithoutStrayLetter(core) ==
    IF core \in StrayNames THEN SubSeq(core, 1, Len(core) - 2) ELSE core

\* C12 as stated: clean_supplier_name strips the characters that are no
\* letters before the name and the junk symbols after it, keeps the name's
\* own closing punctuation, and removes a last letter only when it is a
\* single stray letter: "***ACME INDUSTRIES LTD.###" gives
\* "ACME INDUSTRIES LTD.".
SupplierNameCleaned ==
    /\ \A lead \in JunkOf(LeadingSymbols) : \A core \in SupplierCores :
       \A trail \in JunkOf(TrailingSymbols) :
           (pc = "cleaned" /\ text = lead \o core \o trail)
               => result = PyStr(WithoutStrayLetter(core))
    /\ (pc = "cleaned" /\ text = <<"*", "*", "*", "A", "C", "M", "E", " ", "I", "N", "D", "U", "S", "T", "R", "I", "E", "S", " ", "L", "T", "D", ".", "#", "#", "#">>)
           => result = PyStr(<<"A", "C", "M", "E", " ", "I", "N", "D", "U", "S", "T", "R", "I", "E", "S", " ", "L", "T", "D", ".">>)

====
